---- MODULE Spec2Model ----
(***************************************************************************)
(* Model of mon_conj_method.py: the monotone conjugation method.           *)
(*                                                                         *)
(* Numbers.  Every rank produced by rankdata(method="average") is a        *)
(* multiple of 1/2, so a rank r is held as the integer 2r ("doubled").     *)
(* R1, R2 and R1 - R2 are doubled in the same way.  The rate is held in    *)
(* hundredths together with its sign bit (numpy keeps -0.0).  All of       *)
(* these are exact in float64 for the sizes explored here.                 *)
(* Strings are sequences of one-character strings.                         *)
(***************************************************************************)
EXTENDS Integers, Sequences, FiniteSets

VARIABLES
    pc,          \* position of the run
    inFile,      \* lines of the input file, each a pair <<x, y>>
    outFile,     \* content of the output file, or Absent
    xs,          \* array of x values
    ys,          \* array of y values
    sorted_idx,  \* get_ranks: result of np.argsort(xs)
    ranks,       \* doubled ranks in x-sorted order
    p,           \* check_mon_conj: size of the low and of the high group
    results,     \* <<>> or the triple <<int(R1 - R2), std, rate>>
    error        \* "" or the message of the exception that ended the run

vars == <<pc, inFile, outFile, xs, ys, sorted_idx, ranks, p, results, error>>

----------------------------------------------------------------------------
(* Bounds of the explored inputs *)

\* largest number of lines of an input file
MaxN == 12
\* largest number of positions of ys moved to a common value
MaxDev == 2
\* largest number of equal x values
MaxTie == 2
\* largest length of the arrays handed to get_ranks directly
MaxLen == 5
\* number of different y values handed to get_ranks directly
MaxLevels == 4

(* Program constants *)

MinPoints == 9
RateDigits == 2

ValueErrorMsg == "Number of points must be not less than 9"

Absent == <<"<absent>">>
OldContent == <<"o", "l", "d", "\n">>

----------------------------------------------------------------------------
(* Arithmetic *)

Abs(n) == IF n < 0 THEN -n ELSE n

Pow10(n) == IF n = 2 THEN 100 ELSE IF n = 1 THEN 10 ELSE 1

\* round(num / den) for den > 0: to the nearest integer, a half to the even one
\* (Python 3 round() and numpy rint)
Round(num, den) ==
    LET q == num \div den
        r == num - q * den
    IN  IF 2 * r < den THEN q
        ELSE IF 2 * r > den THEN q + 1
        ELSE IF q % 2 = 0 THEN q ELSE q + 1

\* int(num / den) for den > 0: truncation toward zero
Trunc(num, den) == IF num >= 0 THEN num \div den ELSE -((-num) \div den)

RECURSIVE Sum(_)
Sum(s) == IF s = <<>> THEN 0 ELSE Head(s) + Sum(Tail(s))

\* s[:n] for n >= 0
SliceTo(s, n) == SubSeq(s, 1, IF n < Len(s) THEN n ELSE Len(s))

\* faulty variant: s[n:] written for s[-n:]
SliceFromNeg_Rest(s, n) == SubSeq(s, n + 1, Len(s))

\* s[-n:] for n >= 0 (s[-0:] is the whole of s)
SliceFromNeg(s, n) ==
    IF n = 0 \/ n >= Len(s) THEN s ELSE SubSeq(s, Len(s) - n + 1, Len(s))

Min(S) == CHOOSE m \in S : \A k \in S : m <= k

----------------------------------------------------------------------------
(* get_ranks *)

\* np.argsort(xs) with the default kind ("quicksort", which numpy does not
\* make stable): any order of the indices that puts xs in ascending order.
RECURSIVE ArgSortsOf(_, _)
ArgSortsOf(a, S) ==
    IF S = {} THEN {<<>>}
    ELSE LET m == Min({a[i] : i \in S})
             C == {i \in S : a[i] = m}
         IN  UNION {{<<i>> \o t : t \in ArgSortsOf(a, S \ {i})} : i \in C}

argsort(a) == ArgSortsOf(a, DOMAIN a)

\* a[idx]
Take(a, idx) == [k \in 1..Len(idx) |-> a[idx[k]]]

Neg(a) == [k \in 1..Len(a) |-> -a[k]]

\* faulty variant: method "min", every tied element gets the first position
rankdata_Min(a) ==
    [k \in 1..Len(a) |-> 2 * (Cardinality({j \in 1..Len(a) : a[j] < a[k]}) + 1)]

\* scipy.stats.rankdata(a), method "average", doubled: an element's rank is
\* the mean of the positions (less + 1) .. leq that its tie group occupies.
rankdata(a) ==
    [k \in 1..Len(a) |->
        LET less == Cardinality({j \in 1..Len(a) : a[j] < a[k]})
            leq  == Cardinality({j \in 1..Len(a) : a[j] <= a[k]})
        IN  less + leq + 1]

\* faulty variant: ys ranked ascending (the sign dropped)
get_ranks_NoNeg(idx, b) == rankdata(Take(b, idx))

\* the ranks get_ranks returns when argsort returns idx
get_ranks(idx, b) == rankdata(Neg(Take(b, idx)))

----------------------------------------------------------------------------
(* check_mon_conj *)

\* faulty variant: the comparison off by one
TooFewPoints_OffByOne(N) == N <= MinPoints

TooFewPoints(N) == N < MinPoints

\* faulty variant: a quarter of the points in each group
PartitionSize_Quarter(N) == Round(N, 4)

PartitionSize(N) == Round(N, 3)

\* round(sqrt(a / b)) for a >= 0, b > 0: the s with
\* (s - 1/2)^2 <= a / b <= (s + 1/2)^2, the even s when a / b is on a boundary
RoundSqrt(a, b, top) ==
    LET C == {s \in 0..top :
                 /\ (s = 0 \/ (2 * s - 1) * (2 * s - 1) * b <= 4 * a)
                 /\ 4 * a <= (2 * s + 1) * (2 * s + 1) * b}
    IN  IF Cardinality(C) = 1 THEN CHOOSE s \in C : TRUE
        ELSE CHOOSE s \in C : s % 2 = 0

\* faulty variant: N written for N + 0.5
StdOf_NoHalf(N, q) == RoundSqrt(4 * N * N * q, 24, (N + 1) * (q + 1))

\* round((N + 0.5) * sqrt(q / 6)) = round(sqrt((2N + 1)^2 * q / 24))
StdOf(N, q) == RoundSqrt((2 * N + 1) * (2 * N + 1) * q, 24, (N + 1) * (q + 1))

\* round(d / den, 2) for the doubled difference d2
RateOf(d2, den) ==
    IF den = 0
    THEN [kind |-> IF d2 = 0 THEN "nan" ELSE "inf", neg |-> d2 < 0, h |-> 0]
    ELSE [kind |-> "finite", neg |-> d2 < 0,
          h |-> Round(Pow10(RateDigits) * Abs(d2), 2 * den)]

\* the triple check_mon_conj returns for the ranks rk
ResultOf(N, q, rk) ==
    LET R1 == Sum(SliceTo(rk, q))
        R2 == Sum(SliceFromNeg(rk, q))
    IN  <<Trunc(R1 - R2, 2), StdOf(N, q), RateOf(R1 - R2, q * (N - q))>>

----------------------------------------------------------------------------
(* save_result *)

Digit(d) == <<"0", "1", "2", "3", "4", "5", "6", "7", "8", "9">>[d + 1]

RECURSIVE NatStr(_)
NatStr(n) == IF n < 10 THEN <<Digit(n)>> ELSE NatStr(n \div 10) \o <<Digit(n % 10)>>

\* str(n) of an int
IntStr(n) == IF n < 0 THEN <<"-">> \o NatStr(-n) ELSE NatStr(n)

\* str(x) of a float64 x held in hundredths: the shortest digits that read
\* back as x, with at least one digit after the point
FloatStr(r) ==
    LET sign == IF r.neg THEN <<"-">> ELSE <<>>
        frac == r.h % 100
    IN  IF r.kind = "nan" THEN <<"n", "a", "n">>
        ELSE IF r.kind = "inf" THEN sign \o <<"i", "n", "f">>
        ELSE sign \o NatStr(r.h \div 100) \o <<".">> \o
             (IF frac % 10 = 0 THEN <<Digit(frac \div 10)>>
              ELSE <<Digit(frac \div 10), Digit(frac % 10)>>)

\* " ".join(map(str, result)) + "\n"
OutputLine(res) ==
    IntStr(res[1]) \o <<" ">> \o IntStr(res[2]) \o <<" ">> \o FloatStr(res[3]) \o <<"\n">>

----------------------------------------------------------------------------
(* Inputs *)

Asc(N) == [i \in 1..N |-> i]
Desc(N) == [i \in 1..N |-> N + 1 - i]

\* w equal x values at the positions k .. k + w - 1, the others ascending
TiedAt(N, k, w) == [i \in 1..N |-> IF i \in k..(k + w - 1) THEN k ELSE i]

XInputs(N) ==
    {Asc(N), Desc(N)} \cup
    {TiedAt(N, k, w) : k \in 1..N, w \in 2..MaxTie}

\* a base (constant, equal to x, opposite to x) with the positions S moved to
\* one common value c
YInputs(N, x) ==
    LET bases == {[i \in 1..N |-> 0], x, [i \in 1..N |-> N + 1 - x[i]]}
        devs  == {S \in SUBSET (1..N) : Cardinality(S) <= MaxDev}
    IN  {[i \in 1..N |-> IF i \in S THEN c ELSE b[i]] :
            b \in bases, S \in devs, c \in {0, N + 1}}

Lines(x, y) == [i \in 1..Len(x) |-> <<x[i], y[i]>>]

----------------------------------------------------------------------------
(* A run of main(in_path, out_path) *)

Init ==
    /\ pc = "main"
    /\ \E N \in 0..MaxN : \E x \in XInputs(N) : \E y \in YInputs(N, x) :
           inFile = Lines(x, y)
    /\ outFile \in {Absent, OldContent}
    /\ xs = <<>>
    /\ ys = <<>>
    /\ sorted_idx = <<>>
    /\ ranks = <<>>
    /\ p = 0
    /\ results = <<>>
    /\ error = ""

read_data ==
    /\ pc = "main"
    /\ xs' = [i \in 1..Len(inFile) |-> inFile[i][1]]
    /\ ys' = [i \in 1..Len(inFile) |-> inFile[i][2]]
    /\ pc' = "read"
    /\ UNCHANGED <<inFile, outFile, sorted_idx, ranks, p, results, error>>

check_mon_conj ==
    /\ pc = "read"
    /\ LET N == Len(xs) IN
       IF TooFewPoints(N)
       THEN /\ error' = ValueErrorMsg
            /\ pc' = "raised"
            /\ UNCHANGED <<sorted_idx, ranks, p, results>>
       ELSE \E idx \in argsort(xs) :
            /\ p' = PartitionSize(N)
            /\ sorted_idx' = idx
            /\ ranks' = get_ranks(idx, ys)
            /\ results' = ResultOf(N, p', ranks')
            /\ pc' = "checked"
            /\ UNCHANGED error
    /\ UNCHANGED <<inFile, outFile, xs, ys>>

\* faulty variant: the output file is opened and written whether or not
\* check_mon_conj returned
save_result_Always ==
    /\ pc \in {"checked", "raised"}
    /\ outFile' = IF results = <<>> THEN <<>> ELSE OutputLine(results)
    /\ pc' = "done"
    /\ UNCHANGED <<inFile, xs, ys, sorted_idx, ranks, p, results, error>>

save_result ==
    /\ pc = "checked"
    /\ outFile' = OutputLine(results)
    /\ pc' = "done"
    /\ UNCHANGED <<inFile, xs, ys, sorted_idx, ranks, p, results, error>>

Next == read_data \/ check_mon_conj \/ save_result

Spec == Init /\ [][Next]_vars

----------------------------------------------------------------------------
(* A call of get_ranks(xs, ys) on its own *)

InitRanks ==
    /\ pc = "get_ranks"
    /\ \E N \in 1..MaxLen :
           /\ xs \in XInputs(N)
           /\ ys \in [1..N -> 1..MaxLevels]
    /\ inFile = <<>>
    /\ outFile = Absent
    /\ sorted_idx = <<>>
    /\ ranks = <<>>
    /\ p = 0
    /\ results = <<>>
    /\ error = ""

get_ranks_call ==
    /\ pc = "get_ranks"
    /\ \E idx \in argsort(xs) :
           /\ sorted_idx' = idx
           /\ ranks' = get_ranks(idx, ys)
    /\ pc' = "ranked"
    /\ UNCHANGED <<inFile, outFile, xs, ys, p, results, error>>

NextRanks == get_ranks_call

SpecRanks == InitRanks /\ [][NextRanks]_vars

----------------------------------------------------------------------------
(* Properties *)

N_ == Len(xs)
Returned == pc \in {"checked", "done"}

\* ys in the order get_ranks ranks them in
SortedYs == Take(ys, sorted_idx)
StrictlyDecreasing(s) == \A i, j \in 1..Len(s) : i < j => s[i] > s[j]
StrictlyIncreasing(s) == \A i, j \in 1..Len(s) : i < j => s[i] < s[j]
DistinctXs == \A i, j \in 1..Len(xs) : i # j => xs[i] # xs[j]

\* the one order among them that a stable sort gives
RECURSIVE StableArgSortOf(_, _)
StableArgSortOf(a, S) ==
    IF S = {} THEN <<>>
    ELSE LET m == Min({a[i] : i \in S})
             i == Min({j \in S : a[j] = m})
         IN  <<i>> \o StableArgSortOf(a, S \ {i})

\* doubled R1, R2 as read off the ranks
R1_ == Sum(SliceTo(ranks, p))
R2_ == Sum(SliceFromNeg(ranks, p))

\* the rate in hundredths, signed
SignedRate(r) == IF r.neg THEN -r.h ELSE r.h

\* C1: with fewer than 9 points check_mon_conj raises the ValueError before it
\* computes p, the ranks or a result; with 9 or more it raises nothing and
\* returns a triple.
C1_ValidationGate ==
    /\ pc \notin {"main", "read", "get_ranks", "ranked"} =>
           IF N_ < 9
           THEN /\ pc = "raised"
                /\ error = ValueErrorMsg
                /\ p = 0 /\ sorted_idx = <<>> /\ ranks = <<>> /\ results = <<>>
           ELSE /\ Returned
                /\ error = ""
                /\ Len(results) = 3
                /\ results[1] \in Int /\ results[2] \in Int
                /\ results[3].kind = "finite"
    /\ pc = "raised" => N_ < 9

C1_Witness == pc = "raised" /\ N_ = 8 /\ error = ValueErrorMsg

\* C2: with fewer than 9 samples the run ends at the ValueError and the output
\* file is never written: the file changes only in save_result, which runs
\* only after check_mon_conj has returned.
C2_NoOutputOnError ==
    [][/\ pc # "raised"
       /\ Len(inFile) < 9 => outFile' = outFile
       /\ outFile' # outFile => pc = "checked" /\ error = "" /\ Len(results) = 3]_vars

C2_Witness == pc = "raised" /\ Len(inFile) = 8 /\ outFile = OldContent


\* C3: the ranks get_ranks returns sum to N(N+1)/2 for every pattern of ties in
\* y; tied y values all get the mean of the positions they occupy together,
\* and the largest y gets the smallest rank.  (Ranks are doubled.)
C3_RankSum ==
    pc = "ranked" =>
        /\ Len(ranks) = N_
        /\ Sum(ranks) = N_ * (N_ + 1)
        /\ \A i \in 1..N_ :
               LET above == {j \in 1..N_ : SortedYs[j] > SortedYs[i]}
                   tied  == {j \in 1..N_ : SortedYs[j] = SortedYs[i]}
                   first == Cardinality(above) + 1
                   last  == Cardinality(above) + Cardinality(tied)
               IN  /\ ranks[i] = first + last
                   /\ \A j \in above : ranks[j] < ranks[i]
                   /\ \A j \in tied : ranks[j] = ranks[i]

C3_Witness ==
    /\ pc = "ranked"
    /\ N_ >= 4
    /\ \A i \in 1..N_ : ys[i] = ys[1]
    /\ Sum(ranks) = N_ * (N_ + 1)

\* C4 as stated: ys strictly decreasing in x gives the largest rate that can
\* be attained (1.0), ys strictly increasing in x the smallest (-1.0).
C4_Original ==
    Returned =>
        /\ StrictlyDecreasing(SortedYs) => SignedRate(results[3]) = 100
        /\ StrictlyIncreasing(SortedYs) => SignedRate(results[3]) = -100

\* C4 as amended: no rate is below -1.0 or above 1.0; ys strictly decreasing
\* in x gives the smallest of them, -1.0, and ys strictly increasing in x the
\* largest, 1.0.
C4_MonotonicExtremes ==
    Returned =>
        /\ results[3].kind = "finite"
        /\ SignedRate(results[3]) \in -100..100
        /\ StrictlyDecreasing(SortedYs) => SignedRate(results[3]) = -100
        /\ StrictlyIncreasing(SortedYs) => SignedRate(results[3]) = 100

C4_Witness ==
    /\ pc = "checked"
    /\ N_ > 9
    /\ StrictlyIncreasing(SortedYs)
    /\ SignedRate(results[3]) = 100

\* C5: with distinct x and p = round(N / 3), ys strictly decreasing in x gives
\* the ranks 1..N, R1 = p(p+1)/2, the difference -p(N-p) and the rate -1.0
\* ((-18, 7, -1.0) for N = 9); ys strictly increasing in x gives the ranks
\* N..1, the difference p(N-p) and the rate 1.0 (difference 18 for N = 9).
C5_MonotoneScenarios ==
    (Returned /\ DistinctXs) =>
        /\ 3 * p \in (N_ - 1)..(N_ + 1)
        /\ StrictlyDecreasing(SortedYs) =>
               /\ ranks = [i \in 1..N_ |-> 2 * i]
               /\ R1_ = p * (p + 1)
               /\ results[1] = -(p * (N_ - p))
               /\ results[3] = [kind |-> "finite", neg |-> TRUE, h |-> 100]
               /\ N_ = 9 => results = <<-18, 7, results[3]>>
        /\ StrictlyIncreasing(SortedYs) =>
               /\ ranks = [i \in 1..N_ |-> 2 * (N_ + 1 - i)]
               /\ results[1] = p * (N_ - p)
               /\ results[3] = [kind |-> "finite", neg |-> FALSE, h |-> 100]
               /\ N_ = 9 => results[1] = 18

C5_Witness ==
    /\ pc = "checked"
    /\ N_ = 9
    /\ xs = Asc(9)
    /\ ys = Desc(9)
    /\ results[1] = -18 /\ results[2] = 7 /\ SignedRate(results[3]) = -100

\* C6: the first component returned is R1 - R2 rounded to the nearest
\* integer, not truncated toward zero.
C6_DifferenceRounded ==
    Returned => results[1] = Round(R1_ - R2_, 2)

\* the digits after the decimal point in the third field of an output line
ThirdField(line) ==
    LET sp == {i \in 1..Len(line) : line[i] = " "}
        s2 == CHOOSE i \in sp : \A j \in sp : j <= i
    IN  SubSeq(line, s2 + 1, Len(line) - 1)

DecimalsOf(field) ==
    LET dots == {i \in 1..Len(field) : field[i] = "."}
    IN  IF dots = {} THEN 0 ELSE Len(field) - (CHOOSE i \in dots : TRUE)

\* C7: the rate on the output line has exactly 2 digits after the decimal
\* point, also when it is a whole number or a multiple of 0.1.
C7_TwoDecimals ==
    pc = "done" => DecimalsOf(ThirdField(outFile)) = 2

\* C8: get_ranks sorts by x with a stable sort: of two pairs with equal x the
\* one first in the input is first in the sorted order, so the ranks are
\* determined by the input alone.
C8_StableSort ==
    pc = "ranked" =>
        /\ \A i, j \in 1..N_ :
               (i < j /\ xs[sorted_idx[i]] = xs[sorted_idx[j]]) => sorted_idx[i] < sorted_idx[j]
        /\ ranks = get_ranks(StableArgSortOf(xs, DOMAIN xs), ys)

\* C9: for N >= 9 the group size p = round(N / 3) has 3 <= p and 2p <= N: the
\* low and the high group hold p ranks each and share no position, and the
\* denominator p(N - p) of the rate is positive.
C9_PartitionSize ==
    Returned =>
        /\ N_ >= 9
        /\ 3 * p \in (N_ - 1)..(N_ + 1)
        /\ 3 <= p
        /\ 2 * p <= N_
        /\ Len(SliceTo(ranks, p)) = p
        /\ Len(SliceFromNeg(ranks, p)) = p
        /\ (1..p) \cap ((N_ - p + 1)..N_) = {}
        /\ p * (N_ - p) > 0
        /\ results[3].kind = "finite"

C9_Witness == pc = "checked" /\ N_ = 10 /\ p = 3

\* C10: |R1 - R2| <= p(N - p) for every pattern of ties in x or y, so the rate
\* returned lies in [-1.0, 1.0].
C10_RateBounded ==
    Returned =>
        /\ Abs(R1_ - R2_) <= 2 * p * (N_ - p)
        /\ results[3].kind = "finite"
        /\ results[3].h <= 100

C10_Witness ==
    /\ pc = "checked"
    /\ ~DistinctXs
    /\ \E i, j \in 1..N_ : i # j /\ ys[i] = ys[j]
    /\ (R1_ - R2_) % 2 = 1
    /\ results[3].h \in 1..99

====
